---- MODULE Spec2Model ----
(***************************************************************************)
(* A model of .devcontainer/gogo_claude.py: the driver that runs the       *)
(* external assistant N times, one child process per iteration, teeing    *)
(* the child's standard output into a numbered log file.                  *)
(*                                                                         *)
(* The driver is sequential; the only concurrency is between the driver   *)
(* and the child it spawned, which talk through two bounded pipes.        *)
(* Faults of the environment (a file that cannot be opened, a missing     *)
(* executable, ...) are nondeterministic choices at the statement that    *)
(* can raise.                                                              *)
(*                                                                         *)
(* Not modelled: the --happy launcher (lines 147-174 only change the      *)
(* child's argv, and the child is opaque), and the text of the messages.  *)
(* args.only and args.prompt_table are either absent or a non-empty path. *)
(***************************************************************************)
EXTENDS Integers, Sequences, FiniteSets, TLC

\* ------------------------------------------------------------- bounds
MaxIter == 2        \* iterations requested on the command line: 0..MaxIter
MaxCustom == 2      \* positional prompt files: 0..MaxCustom
MaxTableLen == 2    \* lines of the --prompt-table file
MaxPre == 2         \* log numbers that may exist before the driver starts
MaxOut == 2         \* lines the tool writes to standard output in one driver run
PipeCap == 1        \* capacity of an OS pipe, in lines / chunks
MaxErr == PipeCap + 1   \* chunks the tool writes to standard error in one driver run

\* exit status of argparse's parser.error()
PARSER_ERROR_STATUS == 2

VARIABLES
    args,            \* the parsed command line, and what exists on disk for its paths
    logs_dir,        \* whether script_dir/logs exists
    logs,            \* log number -> content (sequence of lines) of claude_workstreamNN.jsonl
    latest,          \* claude_workstream_latest.jsonl
    error_txt,       \* /workspace/error.txt: "absent" or its content
    pc,              \* where the driver is: "main", "select", "run", "prompt", "spawn",
                     \* "stream", "check", "exit"
    i, builtin_prompts, fixed_prompt, use_only_mode, prompt_file,    \* locals of main
    log_num, success,                                                \* run_iteration
    exit_code,       \* exit status of the driver, -1 while it runs
    result,          \* "running", "config_error", "done", "aborted", "crash"
    cstate,          \* the child: "none", "running", "blocked" in a write, "exited", "orphan"
    pending,         \* the write the child is blocked in
    child_code,      \* the exit status of the child
    returncode,      \* process.returncode: -1 (None) until wait() has returned
    out_pipe,        \* lines written to the stdout pipe and not yet read
    err_pipe,        \* chunks held by the stderr pipe
    out_fuel,        \* lines the tool may still write
    err_fuel,        \* chunks the tool may still write
    printed,         \* what the driver printed of the child's output and of error.txt
    diag,            \* the last diagnostic on stderr
    \* history
    selected,        \* the prompts selected, in order
    draw,            \* the draw of the last weighted selection, until the iteration begins
    fallback,        \* whether line 88 was ever reached
    allocated,       \* the log number each iteration took
    aliased,         \* the iteration whose symlink_to is in place, 0 if none
    created,         \* the log files the driver created, in order
    spawned,         \* children started
    failedAt,        \* the first iteration for which run_iteration returned False
    succeeded,       \* iterations for which it returned True
    written,         \* the lines the current child wrote to stdout
    env0             \* the logs and the alias when the driver started

fs_vars == <<logs_dir, logs, latest>>
main_vars == <<pc, i, builtin_prompts, fixed_prompt, use_only_mode, prompt_file,
               log_num, success, exit_code, result>>
child_vars == <<cstate, pending, child_code, returncode, out_pipe, err_pipe, out_fuel, err_fuel>>
out_vars == <<printed, diag>>
hist_vars == <<selected, draw, fallback, allocated, aliased, created, spawned,
               failedAt, succeeded, written, env0>>
vars == <<args, fs_vars, error_txt, main_vars, child_vars, out_vars, hist_vars>>

\* ------------------------------------------------------------- paths
Path(kind, idx, name) == [kind |-> kind, idx |-> idx, name |-> name]
NoPath == Path("none", 0, "")
prompt_dir(name) == Path("builtin", 0, name)

BUILTIN_PROMPTS ==
    << [weight |-> 50, name |-> "generic_forward_progress_task.md"],
       [weight |-> 30, name |-> "optimization_task.md"],
       [weight |-> 20, name |-> "task_gardening.md"] >>

default_builtin_prompts ==
    [k \in 1..Len(BUILTIN_PROMPTS) |->
        [weight |-> BUILTIN_PROMPTS[k].weight, path |-> prompt_dir(BUILTIN_PROMPTS[k].name)]]

\* custom_prompts[k] is the k-th positional argument
custom_prompts(a) == [k \in 1..a.num_custom |-> Path("custom", k, "argv")]

\* ------------------------------------------------------------- prompt table
\* A line of the table file: its shape after strip()/split(None, 1), the
\* weight int() gives, and whether the prompt file it names exists.
TableLine(shape, weight, file, exists) ==
    [shape |-> shape, weight |-> weight, file |-> file, exists |-> exists]

TableLines ==
    { TableLine("comment", 0, "", FALSE),      \* empty, or starts with '#'
      TableLine("malformed", 0, "", FALSE),    \* one field only
      TableLine("nonnumeric", 0, "A", TRUE),   \* int() raises ValueError
      TableLine("entry", 0, "A", TRUE),        \* weight <= 0
      TableLine("entry", 1, "A", FALSE),       \* file not found
      TableLine("entry", 1, "A", TRUE),
      TableLine("entry", 2, "B", TRUE) }

line_is_valid(l) == l.shape = "entry" /\ l.weight > 0 /\ l.exists

RECURSIVE table_entries(_)
table_entries(lines) ==
    IF lines = <<>> THEN <<>>
    ELSE LET l == Head(lines)
             rest == table_entries(Tail(lines))
         IN IF line_is_valid(l)
            THEN <<[weight |-> l.weight, path |-> Path("table", 0, l.file)]>> \o rest
            ELSE rest

\* load_prompt_table: the entries, or ValueError when none is valid
load_prompt_table(lines) ==
    LET prompts == table_entries(lines)
    IN [raised |-> prompts = <<>>, prompts |-> prompts]

\* ------------------------------------------------------------- weighted selection
RECURSIVE sum_weights(_)
sum_weights(prompts) ==
    IF prompts = <<>> THEN 0 ELSE Head(prompts).weight + sum_weights(Tail(prompts))

\* faulty variant of the walk: the comparison is strict
RECURSIVE walk_strict(_, _, _, _)
walk_strict(prompts, rand, k, cumulative) ==
    IF k > Len(prompts)
    THEN [idx |-> 1, path |-> prompts[1].path, fallback |-> TRUE]
    ELSE IF rand < cumulative + prompts[k].weight
         THEN [idx |-> k, path |-> prompts[k].path, fallback |-> FALSE]
         ELSE walk_strict(prompts, rand, k + 1, cumulative + prompts[k].weight)

select_weighted_prompt_strict(prompts, rand) == walk_strict(prompts, rand, 1, 0)

\* the loop of lines 81-85 from position k with the running sum `cumulative`
RECURSIVE walk(_, _, _, _)
walk(prompts, rand, k, cumulative) ==
    IF k > Len(prompts)
    THEN [idx |-> 1, path |-> prompts[1].path, fallback |-> TRUE]
    ELSE IF rand <= cumulative + prompts[k].weight
         THEN [idx |-> k, path |-> prompts[k].path, fallback |-> FALSE]
         ELSE walk(prompts, rand, k + 1, cumulative + prompts[k].weight)

select_weighted_prompt(prompts, rand) == walk(prompts, rand, 1, 0)

\* ------------------------------------------------------------- log files
RECURSIVE scan_log_number(_, _)
scan_log_number(existing, num) ==
    IF num \in existing THEN scan_log_number(existing, num + 1) ELSE num

find_next_log_number(existing) == scan_log_number(existing, 1)

NoLink == [kind |-> "none", rel |-> TRUE, num |-> 0]
RegularFile == [kind |-> "file", rel |-> TRUE, num |-> 0]
Link(rel, num) == [kind |-> "link", rel |-> rel, num |-> num]

\* Path.exists() follows the link; Path.is_symlink() does not
latest_exists(l, existing) == l.kind = "file" \/ (l.kind = "link" /\ l.num \in existing)
latest_is_symlink(l) == l.kind = "link"

\* lines 135-136
must_unlink(l, existing) == latest_exists(l, existing) \/ latest_is_symlink(l)

\* faulty variant: the link holds the path of the log file, not its name
new_link_full_path(num) == Link(FALSE, num)

\* line 137: symlink_to(log_file.name), the bare file name
new_link(num) == Link(TRUE, num)

write_log(num, line) ==
    [n \in DOMAIN logs \cup {num} |->
        IF n = num
        THEN (IF num \in DOMAIN logs THEN logs[num] ELSE <<>>) \o line
        ELSE logs[n]]

\* ------------------------------------------------------------- display
Lines == {"text", "result", "system", "garbage", "array", "nullmsg"}

\* json.loads of each representative line
json_loads(line) ==
    CASE line = "text"    -> [ok |-> TRUE, isobj |-> TRUE, type |-> "assistant",
                              message |-> "content", result |-> FALSE]
      [] line = "result"  -> [ok |-> TRUE, isobj |-> TRUE, type |-> "result",
                              message |-> "absent", result |-> TRUE]
      [] line = "system"  -> [ok |-> TRUE, isobj |-> TRUE, type |-> "system",
                              message |-> "absent", result |-> FALSE]
      [] line = "array"   -> [ok |-> TRUE, isobj |-> FALSE, type |-> "",
                              message |-> "absent", result |-> FALSE]
      [] line = "nullmsg" -> [ok |-> TRUE, isobj |-> TRUE, type |-> "assistant",
                              message |-> "null", result |-> FALSE]
      [] OTHER            -> [ok |-> FALSE, isobj |-> FALSE, type |-> "",
                              message |-> "absent", result |-> FALSE]

\* lines 203-214: what is printed, and the exception that leaves the inner try
display(line) ==
    LET data == json_loads(line)
    IN IF ~data.ok THEN [raised |-> "none", out |-> <<>>]      \* JSONDecodeError: pass
       ELSE IF ~data.isobj THEN [raised |-> "AttributeError", out |-> <<>>]
       ELSE IF data.type \in {"assistant", "result"}
            THEN IF data.message = "null" THEN [raised |-> "TypeError", out |-> <<>>]
                 ELSE IF data.message = "content"
                      THEN [raised |-> "none", out |-> <<[kind |-> "text", text |-> line]>>]
                 ELSE IF data.result
                      THEN [raised |-> "none", out |-> <<[kind |-> "result", text |-> line]>>]
                 ELSE [raised |-> "none", out |-> <<>>]
       ELSE [raised |-> "none", out |-> <<>>]

\* ------------------------------------------------------------- main: setup
Modes == {"default", "optimize", "general", "tasks", "only", "table"}

\* faulty variant: the --only file is not looked for
config_error_unchecked_only(a) ==
    IF a.mode = "only" /\ a.num_custom > 0 THEN "only_with_prompts"
    ELSE IF a.mode = "table" /\ a.num_custom > 0 THEN "table_with_prompts"
    ELSE IF a.mode = "table" /\ ~a.table_exists THEN "table_not_found"
    ELSE IF a.mode = "table" /\ load_prompt_table(a.table).raised THEN "table_load_failed"
    ELSE "none"

\* lines 288-333, in the order of the checks; "none" when setup goes through
config_error(a) ==
    IF a.mode = "only" /\ a.num_custom > 0 THEN "only_with_prompts"
    ELSE IF a.mode = "table" /\ a.num_custom > 0 THEN "table_with_prompts"
    ELSE IF a.mode = "table" /\ ~a.table_exists THEN "table_not_found"
    ELSE IF a.mode = "table" /\ load_prompt_table(a.table).raised THEN "table_load_failed"
    ELSE IF a.mode = "only" /\ ~a.only_exists THEN "only_not_found"
    ELSE "none"

\* line 300 runs once the positional checks are passed
reaches_mkdir(a) == ~(a.mode \in {"only", "table"} /\ a.num_custom > 0)

main_error ==
    /\ pc = "main"
    /\ config_error(args) # "none"
    /\ pc' = "exit"
    /\ result' = "config_error"
    /\ exit_code' = PARSER_ERROR_STATUS
    /\ diag' = "usage"
    /\ logs_dir' = (logs_dir \/ reaches_mkdir(args))
    /\ UNCHANGED <<args, logs, latest, error_txt, i, builtin_prompts, fixed_prompt,
                   use_only_mode, prompt_file, log_num, success, child_vars, printed,
                   hist_vars>>

main_setup ==
    /\ pc = "main"
    /\ config_error(args) = "none"
    /\ logs_dir' = TRUE
    /\ builtin_prompts' = IF args.mode = "table"
                          THEN load_prompt_table(args.table).prompts
                          ELSE default_builtin_prompts
    /\ fixed_prompt' = CASE args.mode = "only" -> Path("only", 0, "only")
                         [] args.mode = "optimize" -> prompt_dir("optimization_task.md")
                         [] args.mode = "general" -> prompt_dir("generic_forward_progress_task.md")
                         [] args.mode = "tasks" -> prompt_dir("task_gardening.md")
                         [] OTHER -> NoPath
    /\ use_only_mode' = (args.mode = "only")
    /\ pc' = "select"
    /\ UNCHANGED <<args, logs, latest, error_txt, i, prompt_file, log_num, success,
                   exit_code, result, child_vars, out_vars, hist_vars>>

\* ------------------------------------------------------------- main: the loop
\* lines 363-379: the prompt of iteration n under the draw rand
choose_prompt(n, rand) ==
    IF use_only_mode THEN [path |-> fixed_prompt, fallback |-> FALSE]
    ELSE IF n <= args.num_custom
         THEN [path |-> custom_prompts(args)[n], fallback |-> FALSE]
    ELSE IF fixed_prompt # NoPath THEN [path |-> fixed_prompt, fallback |-> FALSE]
    ELSE LET s == select_weighted_prompt(builtin_prompts, rand)
         IN [path |-> s.path, fallback |-> s.fallback]

draws_weighted(n) ==
    ~use_only_mode /\ n > args.num_custom /\ fixed_prompt = NoPath

select_prompt ==
    /\ pc = "select"
    /\ i < args.iterations
    /\ i' = i + 1
    /\ \E rand \in 1..sum_weights(builtin_prompts) :
          /\ draws_weighted(i + 1) \/ rand = 1
          /\ draw' = IF draws_weighted(i + 1) THEN rand ELSE 0
          /\ prompt_file' = choose_prompt(i + 1, rand).path
          /\ fallback' = (fallback \/ choose_prompt(i + 1, rand).fallback)
    /\ selected' = Append(selected, prompt_file')
    /\ pc' = "run"
    /\ UNCHANGED <<args, fs_vars, error_txt, builtin_prompts, fixed_prompt, use_only_mode,
                   log_num, success, exit_code, result, child_vars, out_vars,
                   allocated, aliased, created, spawned, failedAt, succeeded, written, env0>>

\* lines 386-387
main_done ==
    /\ pc = "select"
    /\ i >= args.iterations
    /\ pc' = "exit"
    /\ exit_code' = 0
    /\ result' = "done"
    /\ UNCHANGED <<args, fs_vars, error_txt, i, builtin_prompts, fixed_prompt, use_only_mode,
                   prompt_file, log_num, success, child_vars, out_vars, hist_vars>>

\* an exception nobody catches: the interpreter prints a traceback and exits 1
crash ==
    /\ pc' = "exit"
    /\ result' = "crash"
    /\ exit_code' = 1
    /\ diag' = "traceback"


\* ------------------------------------------------------------- run_iteration
\* run_iteration returns False to main
return_false ==
    /\ success' = FALSE
    /\ failedAt' = IF failedAt = 0 THEN i ELSE failedAt
    /\ pc' = "check"

\* lines 134-137: the alias after the update, or FileExistsError from symlink_to
update_latest(l, existing, num) ==
    IF must_unlink(l, existing) \/ l.kind = "none"
    THEN [latest |-> new_link(num), raised |-> FALSE]
    ELSE [latest |-> l, raised |-> TRUE]

\* lines 123-137: chdir, the log number, the latest alias
run_begin ==
    /\ pc = "run"
    /\ draw' = 0
    /\ written' = <<>>
    /\ cstate' = "none"
    /\ returncode' = -1
    /\ \E fault \in {"none", "chdir", "unlink", "symlink"} :
        LET num == find_next_log_number(DOMAIN logs)
            upd == update_latest(latest, DOMAIN logs, num)
        IN \/ /\ fault = "chdir"                      \* os.chdir raises
              /\ crash
              /\ UNCHANGED <<latest, log_num, allocated, aliased>>
           \/ /\ fault = "unlink"                     \* latest_link.unlink raises
              /\ must_unlink(latest, DOMAIN logs)
              /\ crash
              /\ log_num' = num
              /\ allocated' = Append(allocated, num)
              /\ UNCHANGED <<latest, aliased>>
           \/ /\ fault = "symlink" \/ (fault = "none" /\ upd.raised)   \* symlink_to raises
              /\ crash
              /\ log_num' = num
              /\ allocated' = Append(allocated, num)
              /\ latest' = IF must_unlink(latest, DOMAIN logs) THEN NoLink ELSE latest
              /\ aliased' = IF must_unlink(latest, DOMAIN logs) THEN 0 ELSE aliased
           \/ /\ fault = "none" /\ ~upd.raised
              /\ log_num' = num
              /\ allocated' = Append(allocated, num)
              /\ latest' = upd.latest
              /\ aliased' = i
              /\ pc' = "prompt"
              /\ UNCHANGED <<exit_code, result, diag>>
    /\ UNCHANGED <<args, logs_dir, logs, error_txt, i, builtin_prompts, fixed_prompt,
                   use_only_mode, prompt_file, success, pending, child_code,
                   out_pipe, err_pipe, out_fuel, err_fuel, printed, selected, fallback,
                   created,
                   spawned, failedAt, succeeded, env0>>

\* lines 139-184: read the prompt, build the command
read_prompt ==
    /\ pc = "prompt"
    /\ \E fault \in {"none", "open"} :
        \/ /\ fault = "open"                          \* open(prompt_file) raises
           /\ crash
        \/ /\ fault = "none"
           /\ pc' = "spawn"
           /\ UNCHANGED <<exit_code, result, diag>>
    /\ UNCHANGED <<args, fs_vars, error_txt, i, builtin_prompts, fixed_prompt, use_only_mode,
                   prompt_file, log_num, success, child_vars, printed, hist_vars>>

\* lines 186-194: open the log for append, start the child
spawn ==
    /\ pc = "spawn"
    /\ \E fault \in {"none", "open_log", "popen"} :
        \/ /\ fault = "open_log"                      \* open(log_file, 'a') raises
           /\ return_false
           /\ diag' = "iteration_error"
           /\ UNCHANGED <<logs, created, spawned, cstate, returncode, out_pipe, err_pipe>>
        \/ /\ fault = "popen"                         \* the executable is missing
           /\ logs' = write_log(log_num, <<>>)
           /\ created' = Append(created, [iter |-> i, num |-> log_num])
           /\ return_false
           /\ diag' = "iteration_error"
           /\ UNCHANGED <<spawned, cstate, returncode, out_pipe, err_pipe>>
        \/ /\ fault = "none"
           /\ logs' = write_log(log_num, <<>>)
           /\ created' = Append(created, [iter |-> i, num |-> log_num])
           /\ spawned' = spawned + 1
           /\ cstate' = "running"
           /\ returncode' = -1
           /\ out_pipe' = <<>>
           /\ err_pipe' = 0
           /\ pc' = "stream"
           /\ UNCHANGED <<success, failedAt, diag>>
    /\ UNCHANGED <<args, logs_dir, latest, error_txt, i, builtin_prompts, fixed_prompt,
                   use_only_mode, prompt_file, log_num, exit_code, result, pending,
                   child_code, out_fuel, err_fuel, printed, selected, draw, fallback,
                   allocated,
                   aliased, succeeded, written, env0>>

\* ------------------------------------------------------------- the child
driver_frame == <<args, fs_vars, main_vars, out_vars, selected, draw, fallback, allocated,
                  aliased, created, spawned, failedAt, succeeded, env0>>

\* write(1, line): completes if the pipe has room, blocks otherwise
child_write_out ==
    /\ cstate = "running"
    /\ out_fuel > 0
    /\ out_fuel' = out_fuel - 1
    /\ \E line \in Lines :
        IF Len(out_pipe) < PipeCap
        THEN /\ out_pipe' = Append(out_pipe, line)
             /\ written' = Append(written, line)
             /\ UNCHANGED <<cstate, pending>>
        ELSE /\ cstate' = "blocked"
             /\ pending' = line
             /\ UNCHANGED <<out_pipe, written>>
    /\ UNCHANGED <<driver_frame, error_txt, child_code, returncode, err_pipe, err_fuel>>

\* write(2, chunk)
child_write_err ==
    /\ cstate = "running"
    /\ err_fuel > 0
    /\ err_fuel' = err_fuel - 1
    /\ IF err_pipe < PipeCap
       THEN /\ err_pipe' = err_pipe + 1
            /\ UNCHANGED <<cstate, pending>>
       ELSE /\ cstate' = "blocked"
            /\ pending' = "stderr"
            /\ UNCHANGED err_pipe
    /\ UNCHANGED <<driver_frame, error_txt, child_code, returncode, out_pipe, out_fuel, written>>

\* a blocked write completes once its pipe has room
child_resume ==
    /\ cstate = "blocked"
    /\ \/ /\ pending = "stderr"
          /\ err_pipe < PipeCap
          /\ err_pipe' = err_pipe + 1
          /\ UNCHANGED <<out_pipe, written>>
       \/ /\ pending # "stderr"
          /\ Len(out_pipe) < PipeCap
          /\ out_pipe' = Append(out_pipe, pending)
          /\ written' = Append(written, pending)
          /\ UNCHANGED err_pipe
    /\ cstate' = "running"
    /\ pending' = "none"
    /\ UNCHANGED <<driver_frame, error_txt, child_code, returncode, out_fuel, err_fuel>>

\* exit(code); the tool may have left the sentinel file behind. The driver looks
\* at error.txt only after the child's exit, so when the file appeared is not
\* observable and it is created here.
child_exit ==
    /\ cstate = "running"
    /\ \E code \in {0, 1} : child_code' = code
    /\ \E sentinel \in BOOLEAN :
          error_txt' = IF sentinel THEN "child" ELSE error_txt
    /\ cstate' = "exited"
    /\ UNCHANGED <<driver_frame, pending, returncode, out_pipe, err_pipe, out_fuel, err_fuel,
                   written>>

\* ------------------------------------------------------------- run_iteration: streaming
\* lines 197-214, one turn of the loop; an exception of display() reaches line 223
read_line ==
    /\ pc = "stream"
    /\ out_pipe # <<>>
    /\ LET line == Head(out_pipe)
           d == display(line)
       IN /\ out_pipe' = Tail(out_pipe)
          /\ logs' = write_log(log_num, <<line>>)
          /\ printed' = printed \o d.out
          /\ IF d.raised # "none"
             THEN /\ return_false
                  /\ diag' = "iteration_error"
                  /\ cstate' = IF cstate = "exited" THEN "exited" ELSE "orphan"
             ELSE UNCHANGED <<success, failedAt, pc, diag, cstate>>
    /\ UNCHANGED <<args, logs_dir, latest, error_txt, i, builtin_prompts, fixed_prompt,
                   use_only_mode, prompt_file, log_num, exit_code, result, pending,
                   child_code, returncode, err_pipe, out_fuel, err_fuel, selected, draw, fallback,
                   allocated, aliased, created, spawned, succeeded, written, env0>>

\* faulty variant: the sentinel is removed once it has been shown
check_error_file_unlink(e) ==
    IF e # "absent"
    THEN [ok |-> FALSE, out |-> <<[kind |-> "error_txt", text |-> e]>>, error_txt |-> "absent"]
    ELSE [ok |-> TRUE, out |-> <<>>, error_txt |-> e]

\* lines 228-232
check_error_file(e) ==
    IF e # "absent"
    THEN [ok |-> FALSE, out |-> <<[kind |-> "error_txt", text |-> e]>>, error_txt |-> e]
    ELSE [ok |-> TRUE, out |-> <<>>, error_txt |-> e]

\* lines 216-235: end of file on stdout, wait(), the exit code, error.txt
finish ==
    /\ pc = "stream"
    /\ out_pipe = <<>>
    /\ cstate = "exited"
    /\ returncode' = child_code                      \* process.wait()
    /\ IF child_code # 0
       THEN /\ err_pipe' = 0                          \* process.stderr.read()
            /\ diag' = "claude_error"
            /\ return_false
            /\ UNCHANGED <<printed, error_txt, succeeded>>
       ELSE LET c == check_error_file(error_txt)
            IN /\ printed' = printed \o c.out
               /\ error_txt' = c.error_txt
               /\ IF c.ok
                  THEN /\ success' = TRUE
                       /\ succeeded' = succeeded + 1
                       /\ pc' = "check"
                       /\ UNCHANGED failedAt
                  ELSE /\ return_false
                       /\ UNCHANGED succeeded
               /\ UNCHANGED <<err_pipe, diag>>
    /\ UNCHANGED <<args, fs_vars, i, builtin_prompts, fixed_prompt, use_only_mode,
                   prompt_file, log_num, exit_code, result, cstate, pending, child_code,
                   out_pipe, out_fuel, err_fuel, selected, draw, fallback, allocated,
                   aliased, created, spawned, written, env0>>

\* faulty variant: the loop goes on after a failed iteration
main_check_continue ==
    /\ pc = "check"
    /\ pc' = "select"
    /\ UNCHANGED <<exit_code, result>>
    /\ UNCHANGED <<args, fs_vars, error_txt, i, builtin_prompts, fixed_prompt, use_only_mode,
                   prompt_file, log_num, success, child_vars, out_vars, hist_vars>>

\* faulty variant: a failed iteration ends the driver with status 0
main_check_status0 ==
    /\ pc = "check"
    /\ IF ~success
       THEN /\ pc' = "exit"
            /\ exit_code' = 0
            /\ result' = "aborted"
       ELSE /\ pc' = "select"
            /\ UNCHANGED <<exit_code, result>>
    /\ UNCHANGED <<args, fs_vars, error_txt, i, builtin_prompts, fixed_prompt, use_only_mode,
                   prompt_file, log_num, success, child_vars, out_vars, hist_vars>>

\* lines 382-384
main_check ==
    /\ pc = "check"
    /\ IF ~success
       THEN /\ pc' = "exit"
            /\ exit_code' = 1
            /\ result' = "aborted"
       ELSE /\ pc' = "select"
            /\ UNCHANGED <<exit_code, result>>
    /\ UNCHANGED <<args, fs_vars, error_txt, i, builtin_prompts, fixed_prompt, use_only_mode,
                   prompt_file, log_num, success, child_vars, out_vars, hist_vars>>

\* ------------------------------------------------------------- initial states
RECURSIVE SeqsUpTo(_, _)
SeqsUpTo(S, n) ==
    IF n = 0 THEN {<<>>}
    ELSE LET shorter == SeqsUpTo(S, n - 1)
         IN shorter \cup {Append(s, x) : s \in {t \in shorter : Len(t) = n - 1}, x \in S}

Config(mode, n, c, oe, te, t) ==
    [mode |-> mode, iterations |-> n, num_custom |-> c, only_exists |-> oe,
     table_exists |-> te, table |-> t]

\* Command lines. only_exists matters with --only, table_exists and the table's
\* lines with --prompt-table and no positional prompt (lines 291-292 end the run
\* before the table is looked at).
Configs ==
    { Config(m, n, c, TRUE, TRUE, <<>>) :
        m \in Modes \ {"only", "table"}, n \in 0..MaxIter, c \in 0..MaxCustom }
    \cup { Config("only", n, c, oe, TRUE, <<>>) :
        n \in 0..MaxIter, c \in 0..MaxCustom, oe \in BOOLEAN }
    \cup { Config("table", n, c, te, TRUE, <<>>) :
        n \in 0..MaxIter, c \in 1..MaxCustom, te \in BOOLEAN }
    \cup { Config("table", n, 0, TRUE, FALSE, <<>>) : n \in 0..MaxIter }
    \cup { Config("table", n, 0, TRUE, TRUE, t) :
        n \in 0..MaxIter, t \in SeqsUpTo(TableLines, MaxTableLen) }

\* What is on disk when the driver starts.
Env(existing, l, d, e) == [existing |-> existing, latest |-> l, logs_dir |-> d, error_txt |-> e]

Latests == {NoLink, RegularFile} \cup {Link(TRUE, n) : n \in 1..MaxPre}

Envs ==
    { Env(existing, l, TRUE, e) :
        existing \in SUBSET (1..MaxPre), l \in Latests, e \in {"absent", "stale"} }
    \cup { Env({}, NoLink, FALSE, e) : e \in {"absent", "stale"} }

\* What the tool may write in one driver run: lines on stdout, chunks on stderr.
Tool(o, e) == [out |-> o, err |-> e]
FullTool == Tool(MaxOut, MaxErr)
BaseTool == Tool(1, 1)

BaseEnv == Env({}, NoLink, TRUE, "absent")
CoreConfigs == { Config("general", n, 0, TRUE, TRUE, <<>>) : n \in 1..MaxIter }

\* lines 288-333 end these runs before the loop
EndsBeforeLoop(c) ==
    \/ c.iterations = 0
    \/ c.mode \in {"only", "table"} /\ c.num_custom > 0
    \/ c.mode = "only" /\ ~c.only_exists
    \/ c.mode = "table" /\ (~c.table_exists \/ table_entries(c.table) = <<>>)

\* The command line, the disk and the tool are independent of each other in the
\* code (the tool gets the prompt's text and nothing else), so the runs that
\* reach the loop vary one of the three at a time around the core command
\* lines, the fresh disk and the terse tool; the runs that end before the loop
\* take every command line with every disk.
Explored(c, e, t) ==
    \/ c \in CoreConfigs /\ e = BaseEnv /\ t = FullTool
    \/ t = BaseTool /\ (e = BaseEnv \/ c \in CoreConfigs \/ EndsBeforeLoop(c))

Init ==
    /\ args \in Configs
    /\ \E e \in Envs, t \in {BaseTool, FullTool} :
        /\ Explored(args, e, t)
        /\ logs = [n \in e.existing |-> <<"old">>]
        /\ latest = e.latest
        /\ logs_dir = e.logs_dir
        /\ error_txt = e.error_txt
        /\ out_fuel = t.out
        /\ err_fuel = t.err
    /\ pc = "main" /\ i = 0
    /\ builtin_prompts = default_builtin_prompts
    /\ fixed_prompt = NoPath /\ use_only_mode = FALSE
    /\ prompt_file = NoPath /\ log_num = 0 /\ success = TRUE
    /\ exit_code = -1 /\ result = "running"
    /\ cstate = "none" /\ pending = "none" /\ child_code = 0 /\ returncode = -1
    /\ out_pipe = <<>> /\ err_pipe = 0
    /\ printed = <<>> /\ diag = "none"
    /\ selected = <<>> /\ draw = 0 /\ fallback = FALSE /\ allocated = <<>>
    /\ aliased = 0 /\ created = <<>> /\ spawned = 0 /\ failedAt = 0 /\ succeeded = 0
    /\ written = <<>>
    /\ env0 = [logs |-> logs, latest |-> latest]

Next ==
    \/ main_error \/ main_setup \/ select_prompt \/ main_done
    \/ run_begin \/ read_prompt \/ spawn
    \/ child_write_out \/ child_write_err \/ child_resume \/ child_exit
    \/ read_line \/ finish \/ main_check

Spec == Init /\ [][Next]_vars


\* ------------------------------------------------------------- the claims
\* The configuration errors, as the specification lists them.
ClaimedConfigError(a) ==
    \/ a.num_custom > 0 /\ a.mode \in {"only", "table"}
    \/ a.mode = "table" /\ ~a.table_exists
    \/ a.mode = "table" /\ a.table_exists
       /\ \A k \in 1..Len(a.table) :
            ~(a.table[k].shape = "entry" /\ a.table[k].weight >= 1 /\ a.table[k].exists)
    \/ a.mode = "only" /\ ~a.only_exists

\* C1: once run_iteration has returned False for iteration k, the loop does
\* nothing more: i stays k, exactly k prompts were selected and k log names
\* allocated, at most k children spawned, and main is at the check or has left.
C1_StopAtFirstFailure ==
    failedAt # 0 =>
        /\ i = failedAt
        /\ Len(selected) = failedAt
        /\ Len(allocated) = failedAt
        /\ spawned <= failedAt
        /\ pc \in {"check", "exit"}
        /\ pc = "exit" => result = "aborted"

C1_Witness ==
    /\ failedAt = 1 /\ args.iterations > 1 /\ pc = "exit"
    /\ spawned = 1 /\ Len(selected) = 1

\* C2 as amended: at exit the status is 0 exactly when no configuration error
\* was detected and all N iterations succeeded, 1 when an iteration failed
\* (run_iteration returned False, or raised), and 2 on a configuration error.
C2_ExitCodes ==
    pc = "exit" =>
        /\ exit_code \in {0, 1, 2}
        /\ exit_code = 0 <=>
             (~ClaimedConfigError(args) /\ succeeded = args.iterations /\ failedAt = 0
              /\ result = "done")
        /\ ClaimedConfigError(args) <=> exit_code = 2
        /\ (failedAt # 0 \/ result = "crash") <=> exit_code = 1

C2_Witness ==
    /\ pc = "exit" /\ exit_code = 2 /\ args.mode = "table" /\ args.table_exists
    /\ Len(args.table) = MaxTableLen

\* C2 as stated: the status is 0 when all N iterations succeeded and 1 in every
\* other case, configuration errors included.
C2_Original ==
    pc = "exit" =>
        IF result = "done" /\ succeeded = args.iterations
        THEN exit_code = 0
        ELSE exit_code = 1

\* C3: a configuration error ends the driver, with a non-zero status, before
\* iteration 1: nothing was selected, allocated, created or spawned, and the
\* logs and the latest alias are what they were when the driver started.
C3_ConfigErrorBeforeAnyRun ==
    (ClaimedConfigError(args) /\ pc # "main") =>
        /\ pc = "exit" /\ result = "config_error"
        /\ exit_code > 0
        /\ i = 0 /\ selected = <<>> /\ allocated = <<>> /\ created = <<>> /\ spawned = 0
        /\ logs = env0.logs /\ latest = env0.latest

C3_Witness ==
    /\ pc = "exit" /\ result = "config_error"
    /\ args.mode = "table" /\ args.table_exists /\ args.num_custom = 0
    /\ Len(args.table) = MaxTableLen
    /\ args.iterations > 0
    /\ DOMAIN logs # {} /\ latest.kind = "link"

\* The weighted list the specification names: the table's valid lines in order,
\* or the three built-ins.
ClaimedList(a) ==
    IF a.mode = "table"
    THEN LET valid == SelectSeq(a.table, line_is_valid)
         IN [k \in 1..Len(valid) |->
                [weight |-> valid[k].weight, path |-> Path("table", 0, valid[k].file)]]
    ELSE << [weight |-> 50, path |-> Path("builtin", 0, "generic_forward_progress_task.md")],
            [weight |-> 30, path |-> Path("builtin", 0, "optimization_task.md")],
            [weight |-> 20, path |-> Path("builtin", 0, "task_gardening.md")] >>

Cumulative(list, k) == sum_weights(SubSeq(list, 1, k))

ClaimedFixed(mode) ==
    CASE mode = "optimize" -> Path("builtin", 0, "optimization_task.md")
      [] mode = "general" -> Path("builtin", 0, "generic_forward_progress_task.md")
      [] mode = "tasks" -> Path("builtin", 0, "task_gardening.md")

\* C4: the prompt of iteration i follows the priority rule (only-file, i-th
\* positional file, fixed built-in, weighted draw); a draw r picks the first
\* entry whose cumulative weight is >= r, every entry is picked by exactly
\* weight-many draws, and the fallback is never taken.
C4_PromptPriority ==
    pc = "run" =>
        /\ ~fallback
        /\ IF args.mode = "only" THEN prompt_file = Path("only", 0, "only")
           ELSE IF i <= args.num_custom THEN prompt_file = Path("custom", i, "argv")
           ELSE IF args.mode \in {"optimize", "general", "tasks"}
                THEN prompt_file = ClaimedFixed(args.mode)
           ELSE LET list == ClaimedList(args)
                    total == Cumulative(list, Len(list))
                IN /\ draw \in 1..total
                   /\ \E k \in 1..Len(list) :
                        /\ prompt_file = list[k].path
                        /\ Cumulative(list, k) >= draw
                        /\ Cumulative(list, k - 1) < draw
                   /\ \A k \in 1..Len(list) :
                        Cardinality({r \in 1..total :
                            select_weighted_prompt(builtin_prompts, r).idx = k
                            /\ ~select_weighted_prompt(builtin_prompts, r).fallback})
                          = list[k].weight

C4_Witness ==
    /\ pc = "run" /\ args.mode = "table" /\ i = 2
    /\ Len(builtin_prompts) = 2
    /\ builtin_prompts[1].path # builtin_prompts[2].path
    /\ draw = sum_weights(builtin_prompts)
    /\ prompt_file = builtin_prompts[2].path

\* C5: every iteration that started has produced exactly one new log file, the
\* one run_iteration allocated, and the logs that existed before are untouched.
C5_OneNewLogPerIteration ==
    (i >= 1 /\ pc \in {"check", "select", "exit"}) =>
        /\ Len(created) = i
        /\ \A k \in 1..i : created[k] = [iter |-> k, num |-> allocated[k]]
        /\ \A n \in DOMAIN env0.logs : n \in DOMAIN logs /\ logs[n] = env0.logs[n]

\* C6 as stated: once the driver has pointed the alias, the alias names, in
\* every state, the most recently created log file.
C6_Original ==
    aliased # 0 =>
        /\ latest.kind = "link"
        /\ created # <<>>
        /\ latest.num = created[Len(created)].num
        /\ latest.num \in DOMAIN logs

\* C6 as amended: once an iteration has pointed the alias, and until the next
\* one does, the alias is a link to the bare name of the log file that
\* iteration allocated, whatever it was before; every iteration that returns
\* to the loop has pointed it; and from the moment that iteration has opened
\* its log, the alias names the most recently created log file.
C6_LatestAlias ==
    /\ aliased # 0 =>
          /\ latest = [kind |-> "link", rel |-> TRUE, num |-> allocated[aliased]]
          /\ (created # <<>> /\ created[Len(created)].iter = aliased) =>
                /\ created[Len(created)].num = latest.num
                /\ latest.num \in DOMAIN logs
    /\ (pc \in {"prompt", "spawn", "stream", "check"}
        \/ (i >= 1 /\ result \in {"done", "aborted"})) => aliased = i

C6_Witness ==
    /\ pc = "check" /\ i = 2 /\ aliased = 2
    /\ env0.latest.kind = "link" /\ env0.latest.num \notin DOMAIN env0.logs
    /\ DOMAIN env0.logs = {2}
    /\ created[Len(created)].iter = 2

C8_LogFidelity ==
    (pc = "check" /\ cstate # "none") =>
        /\ cstate = "exited"
        /\ diag # "iteration_error"
        /\ log_num \in DOMAIN logs
        /\ logs[log_num] = written

\* C9: the driver never ends by an unhandled exception.
C9_NoUnhandledException ==
    result # "crash"

\* C10: the driver and its child never wait for each other: as long as the
\* driver has not exited, some step of one of them is possible.
C10_NoMutualWait ==
    pc # "exit" => ENABLED Next

====
